---- MODULE Spec2Model ----
(***************************************************************************)
(* The exchange economy of inauguralproject.py: ExchangeEconomyClass, its  *)
(* demand and excess demand functions, the two tatonnement solvers         *)
(* (market_clearing_price, market_clearing_price_Q8) and the two sweeps    *)
(* (question1, question2).                                                 *)
(*                                                                         *)
(* Python floats are IEEE-754 binary64 numbers.  They are modelled bit for *)
(* bit: a float is a sign, a 53 bit mantissa and an exponent, and + - * /  *)
(* round to nearest, ties to even, as the hardware does.  The mantissa     *)
(* does not fit the model checker's integers, so it is kept as a sequence  *)
(* of 15 bit limbs, least significant first.                               *)
(***************************************************************************)
EXTENDS Integers, Sequences, FiniteSets, TLC

(***************************************************************************)
(* Natural numbers of any size: sequences of limbs below Base, least       *)
(* significant limb first, no leading zero limb; zero is the empty         *)
(* sequence.                                                               *)
(***************************************************************************)
LimbBits == 15

Base == 2^LimbBits

Max(a, b) == IF a >= b THEN a ELSE b

Min(a, b) == IF a <= b THEN a ELSE b

Limb(n, i) == IF i <= Len(n) THEN n[i] ELSE 0

\* the largest element of a nonempty set of integers
Top(S) == CHOOSE i \in S : \A h \in S : h <= i

NonZero(s) == {i \in 1..Len(s) : s[i] # 0}

TrimSeq(s) == IF NonZero(s) = {} THEN <<>> ELSE SubSeq(s, 1, Top(NonZero(s)))

\* n without its leading zero limbs
Trim(n) == TrimSeq(n \o <<>>)

\* the limbs of 0 <= k < 2^31
FromNat(k) == Trim(<<k % Base, (k \div Base) % Base, k \div (Base * Base)>>)

\* the carry into limb i of the limb sums s: the nearest limb below i that
\* produces a carry, seen through limbs that pass it on
Carry(s, i) ==
    \E h \in 1..(i - 1) : s[h] >= Base /\ \A k \in (h + 1)..(i - 1) : s[k] = Base - 1

AddCarries(s) ==
    IF s = <<>> THEN <<>>
    ELSE Trim([i \in 1..Len(s) |-> (s[i] + (IF Carry(s, i) THEN 1 ELSE 0)) % Base])

\* a + b
BAdd(a, b) ==
    IF a = <<>> THEN b
    ELSE IF b = <<>> THEN a
    ELSE AddCarries([i \in 1..(Max(Len(a), Len(b)) + 1) |->
                        Limb(a, i) + Limb(b, i)] \o <<>>)

\* the borrow from limb i of the limb differences d
Borrow(d, i) ==
    \E h \in 1..(i - 1) : d[h] < 0 /\ \A k \in (h + 1)..(i - 1) : d[k] = 0

SubBorrows(d) ==
    IF d = <<>> THEN <<>>
    ELSE Trim([i \in 1..Len(d) |-> (d[i] - (IF Borrow(d, i) THEN 1 ELSE 0) + Base) % Base])

\* a - b for a >= b
BSub(a, b) ==
    IF b = <<>> THEN a
    ELSE SubBorrows([i \in 1..Len(a) |-> a[i] - Limb(b, i)] \o <<>>)

\* a against b at the highest of the limbs df where they differ
CmpAt(a, b, df) ==
    IF df = {} THEN 0 ELSE IF a[Top(df)] > b[Top(df)] THEN 1 ELSE -1

\* -1, 0 or 1 as a < b, a = b or a > b
BCmp(a, b) ==
    IF Len(a) > Len(b) THEN 1
    ELSE IF Len(a) < Len(b) THEN -1
    ELSE CmpAt(a, b, {i \in 1..Len(a) : a[i] # b[i]})

ShiftLimbs(a, k) == IF a = <<>> THEN a ELSE [i \in 1..k |-> 0] \o a

DropLimbs(a, k) == IF k >= Len(a) THEN <<>> ELSE SubSeq(a, k + 1, Len(a))

\* a * d for 0 <= d <= Base: the low halves of the limb products plus their
\* high halves one limb up
BMulSmall(a, d) ==
    IF a = <<>> \/ d = 0 THEN <<>>
    ELSE BAdd([i \in 1..Len(a) |-> (a[i] * d) % Base] \o <<>>,
              <<0>> \o [i \in 1..Len(a) |-> (a[i] * d) \div Base])

\* the sum of a * b[i] * Base^(i-1) for i in lo..hi
RECURSIVE MulRange(_, _, _, _)
MulRange(a, b, lo, hi) ==
    IF lo = hi
    THEN ShiftLimbs(BMulSmall(a, b[lo]), lo - 1)
    ELSE BAdd(MulRange(a, b, lo, (lo + hi) \div 2),
              MulRange(a, b, (lo + hi) \div 2 + 1, hi))

BMul(a, b) == IF a = <<>> \/ b = <<>> THEN <<>> ELSE MulRange(a, b, 1, Len(b))

\* a * 2^k
BShl(a, k) ==
    IF a = <<>> THEN <<>>
    ELSE ShiftLimbs(BMulSmall(a, 2^(k % LimbBits)), k \div LimbBits)

ShrBits(b, r) ==
    IF b = <<>> THEN <<>>
    ELSE Trim([i \in 1..Len(b) |->
                  b[i] \div 2^r + (Limb(b, i + 1) % 2^r) * 2^(LimbBits - r)])

\* floor(a / 2^k)
BShr(a, k) == ShrBits(DropLimbs(a, k \div LimbBits), k % LimbBits)

\* floor(a / d) for 0 < d <= Base, the limbs i..1 of a with r < d carried in
RECURSIVE DivSmallFrom(_, _, _, _)
DivSmallFrom(a, d, i, r) ==
    IF i = 0 \/ r >= d
    THEN <<>>
    ELSE DivSmallFrom(a, d, i - 1, (r * Base + a[i]) % d)
             \o <<(r * Base + a[i]) \div d>>

BDivSmall(a, d) == Trim(DivSmallFrom(a, d, Len(a), 0))

\* the number of bits of 0 <= x < Base
BitLenSmall(x) == Cardinality({k \in 0..(LimbBits - 1) : 2^k <= x})

BBitLen(a) ==
    IF a = <<>> THEN 0 ELSE LimbBits * (Len(a) - 1) + BitLenSmall(a[Len(a)])

BIsOdd(a) == a # <<>> /\ a[1] % 2 = 1

\* r * Base + limb
PushLimb(r, limb) ==
    IF r = <<>> THEN (IF limb = 0 THEN <<>> ELSE <<limb>>) ELSE <<limb>> \o r

\* the largest q <= qhat with q * d <= r
RECURSIVE FitDigit(_, _, _)
FitDigit(d, r, qhat) ==
    IF BCmp(BMulSmall(d, qhat), r) > 0 THEN FitDigit(d, r, qhat - 1) ELSE qhat

\* the quotient digit of cur < d * Base by d, whose top limb is at least
\* Base/2: the estimate from the top limbs is at most two too large
Digit(d, cur) ==
    IF BCmp(cur, d) < 0 THEN 0
    ELSE FitDigit(d, cur,
             Min(Base - 1,
                 (Limb(cur, Len(d) + 1) * Base + Limb(cur, Len(d))) \div d[Len(d)]))

\* Schoolbook long division of the limbs i..1 of n by d: r < d is the
\* remainder so far, q the quotient limbs found so far.  It stops at i = 0,
\* and would stop at a remainder that is not below d.
RECURSIVE DivFrom(_, _, _, _, _)
DivDigit(n, d, i, cur, qd, q) ==
    DivFrom(n, d, i - 1, BSub(cur, BMulSmall(d, qd)), <<qd>> \o q)

DivFrom(n, d, i, r, q) ==
    IF i = 0 \/ BCmp(r, d) >= 0
    THEN [q |-> q, r |-> r]
    ELSE DivDigit(n, d, i, PushLimb(r, n[i]), Digit(d, PushLimb(r, n[i])), q)

\* the division of ns by ds, both shifted left by sh bits.  The top
\* Len(ds) - 1 limbs of ns are below ds: the division starts under them.
DivOut(res, sh) == [q |-> Trim(res.q), r |-> BShr(res.r, sh)]

DivLong(ns, ds, low, sh) == DivOut(DivFrom(ns, ds, low, DropLimbs(ns, low), <<>>), sh)

DivNorm(ns, ds, sh) == DivLong(ns, ds, Max(0, Len(ns) - Len(ds) + 1), sh)

\* [q |-> floor(n / d), r |-> n - q*d] for d > 0
BDivMod(n, d) ==
    DivNorm(BShl(n, LimbBits - BitLenSmall(d[Len(d)])),
            BShl(d, LimbBits - BitLenSmall(d[Len(d)])),
            LimbBits - BitLenSmall(d[Len(d)]))

(***************************************************************************)
(* binary64.  A float is zero (m = <<>>) or (-1)^s * m * 2^e with          *)
(* 2^52 <= m < 2^53.  The prices and quantities of this program stay far   *)
(* from the largest and the smallest binary64 numbers, so the exponent is  *)
(* not bounded here; division by zero is an exception in Python and is     *)
(* handled where the program divides.                                      *)
(***************************************************************************)
MantBits == 53

FZero == [s |-> 0, e |-> 0, m |-> <<>>]

IsZero(a) == a.m = <<>>

\* the mantissa q of at least MantBits bits, one more after a carry out
RoundPack(s, q, e) ==
    IF BBitLen(q) > MantBits
    THEN [s |-> s, e |-> e + 1, m |-> BShr(q, 1)]
    ELSE [s |-> s, e |-> e, m |-> q]

\* q goes up when the bits cut off are more than half (c > 0), or half with
\* something behind them or with q odd
RoundNear(s, q, c, e, sticky) ==
    RoundPack(s, IF c > 0 \/ (c = 0 /\ (sticky \/ BIsOdd(q)))
                 THEN BAdd(q, <<1>>) ELSE q, e)

\* n cut to its top MantBits bits q, d bits cut off
RoundCut(s, n, q, d, e, sticky) ==
    RoundNear(s, q, BCmp(BSub(n, BShl(q, d)), BShl(<<1>>, d - 1)), e + d, sticky)

RoundBits(s, n, e, sticky, L) ==
    IF L <= MantBits
    THEN [s |-> s, e |-> e - (MantBits - L), m |-> BShl(n, MantBits - L)]
    ELSE RoundCut(s, n, BShr(n, L - MantBits), L - MantBits, e, sticky)

\* (-1)^s * (n + f) * 2^e rounded to nearest, ties to even, where 0 <= f < 1
\* and sticky says whether f > 0; n has more than MantBits bits when sticky
RoundNat(s, n, e, sticky) ==
    IF n = <<>> THEN FZero ELSE RoundBits(s, n, e, sticky, BBitLen(n))

RatioOf(s, dm, e) == RoundNat(s, dm.q, e, dm.r # <<>>)

RatioAt(s, n, d, e, k) == RatioOf(s, BDivMod(BShl(n, k), d), e - k)

\* (-1)^s * (n / d) * 2^e rounded
RoundRatio(s, n, d, e) ==
    IF n = <<>> THEN FZero
    ELSE RatioAt(s, n, d, e, Max(0, BBitLen(d) + MantBits + 2 - BBitLen(n)))

FNeg(a) == IF IsZero(a) THEN a ELSE [a EXCEPT !.s = 1 - a.s]

FAbs(a) == [a EXCEPT !.s = 0]

\* the sum of (-1)^a.s * x and (-1)^b.s * y, where c compares x with y
AddMag(a, b, x, y, c) ==
    IF a.s = b.s THEN BAdd(x, y)
    ELSE IF c > 0 THEN BSub(x, y)
    ELSE IF c < 0 THEN BSub(y, x)
    ELSE <<>>

AddSign(a, b, c) == IF a.s = b.s \/ c > 0 THEN a.s ELSE b.s

AddAligned(a, b, x, y, lo) ==
    RoundNat(AddSign(a, b, BCmp(x, y)), AddMag(a, b, x, y, BCmp(x, y)), lo, FALSE)

AddAt(a, b, lo) == AddAligned(a, b, BShl(a.m, a.e - lo), BShl(b.m, b.e - lo), lo)

FAdd(a, b) ==
    IF IsZero(a) THEN b
    ELSE IF IsZero(b) THEN a
    ELSE IF a.e - b.e > MantBits + 2 THEN a
    ELSE IF b.e - a.e > MantBits + 2 THEN b
    ELSE AddAt(a, b, Min(a.e, b.e))

FSub(a, b) == FAdd(a, FNeg(b))

FMul(a, b) ==
    IF IsZero(a) \/ IsZero(b) THEN FZero
    ELSE RoundNat((a.s + b.s) % 2, BMul(a.m, b.m), a.e + b.e, FALSE)

\* a / b for b # 0
FDiv(a, b) ==
    IF IsZero(a) THEN FZero
    ELSE RoundRatio((a.s + b.s) % 2, a.m, b.m, a.e - b.e)

MagLt(x, y) == x.e < y.e \/ (x.e = y.e /\ BCmp(x.m, y.m) < 0)

\* a < b
FLt(a, b) ==
    IF IsZero(a) THEN ~IsZero(b) /\ b.s = 0
    ELSE IF IsZero(b) THEN a.s = 1
    ELSE IF a.s # b.s THEN a.s = 1
    ELSE IF a.s = 0 THEN MagLt(a, b)
    ELSE MagLt(b, a)

FGe(a, b) == ~FLt(a, b)

\* the float of the integer k
FromInt(k) ==
    RoundNat(IF k < 0 THEN 1 ELSE 0, FromNat(IF k < 0 THEN -k ELSE k), 0, FALSE)

\* the float nearest to n/d (a decimal literal, or int / int), d > 0
FromRat(n, d) ==
    RoundRatio(IF n < 0 THEN 1 ELSE 0, FromNat(IF n < 0 THEN -n ELSE n),
               FromNat(d), 0)

\* Newton's step for the cube root of n
CbrtNext(n, r) ==
    BDivSmall(BAdd(BMulSmall(r, 2), BDivMod(n, BMul(r, r)).q), 3)

\* floor(n^(1/3)), by Newton's iteration from r >= n^(1/3)
RECURSIVE CbrtFrom(_, _)
CbrtStep(n, r, r2) == IF BCmp(r2, r) < 0 THEN CbrtFrom(n, r2) ELSE r

CbrtFrom(n, r) == CbrtStep(n, r, CbrtNext(n, r))

ICbrt(n) ==
    IF n = <<>> THEN <<>> ELSE CbrtFrom(n, BShl(<<1>>, (BBitLen(n) + 2) \div 3))

CbrtRoot(N, r, e) == RoundNat(0, r, e, BMul(r, BMul(r, r)) # N)

CbrtScaled(N, e) == CbrtRoot(N, ICbrt(N), e)

\* n shifted left by k bits, k making e - k a multiple of 3
CbrtAt(n, e, k) == CbrtScaled(BShl(n, k), (e - k) \div 3)

CbrtEven(n, e, k0) == CbrtAt(n, e, k0 + ((e - k0) % 3))

\* (n * 2^e)^(1/3) rounded
CbrtRound(n, e) ==
    IF n = <<>> THEN FZero
    ELSE CbrtEven(n, e, Max(0, 3 * (MantBits + 2) - 2 - BBitLen(n)))

(***************************************************************************)
(* ExchangeEconomyClass: the parameters and the pure evaluations.          *)
(***************************************************************************)
\* 1.0 = 2^52 * 2^-52 and 0.5 = 2^52 * 2^-53
One == [s |-> 0, e |-> -52, m |-> <<0, 0, 0, 128>>]

Half == [s |-> 0, e |-> -53, m |-> <<0, 0, 0, 128>>]

\* __init__: par.alpha = 1/3, par.beta = 2/3, par.w1A = 0.8, par.w2A = 0.3
DefaultPar ==
    [alpha |-> FromRat(1, 3), beta |-> FromRat(2, 3),
     w1A |-> FromRat(8, 10), w2A |-> FromRat(3, 10)]

\* x1A = par.alpha*(p1*par.w1A+par.w2A)/(p1)
\* x2A = (1-par.alpha)*(p1*par.w1A+par.w2A)
demand_A(par, p1) ==
    [x1 |-> FDiv(FMul(par.alpha, FAdd(FMul(p1, par.w1A), par.w2A)), p1),
     x2 |-> FMul(FSub(One, par.alpha), FAdd(FMul(p1, par.w1A), par.w2A))]

\* x1B = par.beta*(p1*(1-par.w1A)+(1-par.w2A))/(p1)
\* x2B = (1-par.beta)*(p1*(1-par.w1A)+(1-par.w2A))
demand_B(par, p1) ==
    [x1 |-> FDiv(FMul(par.beta,
                      FAdd(FMul(p1, FSub(One, par.w1A)), FSub(One, par.w2A))),
                 p1),
     x2 |-> FMul(FSub(One, par.beta),
                 FAdd(FMul(p1, FSub(One, par.w1A)), FSub(One, par.w2A)))]

\* a slip: eps2 takes the endowment of good 1
excess_w1A(par, A, B) ==
    [eps1 |-> FSub(FAdd(FSub(A.x1, par.w1A), B.x1), FSub(One, par.w1A)),
     eps2 |-> FSub(FAdd(FSub(A.x2, par.w1A), B.x2), FSub(One, par.w2A))]

\* eps1 = x1A-par.w1A + x1B-(1-par.w1A)
\* eps2 = x2A-par.w2A + x2B-(1-par.w2A)
excess(par, A, B) ==
    [eps1 |-> FSub(FAdd(FSub(A.x1, par.w1A), B.x1), FSub(One, par.w1A)),
     eps2 |-> FSub(FAdd(FSub(A.x2, par.w2A), B.x2), FSub(One, par.w2A))]

check_market_clearing(par, p1) ==
    excess(par, demand_A(par, p1), demand_B(par, p1))

\* range(76) and the divisor of j / 75
GridCount == 76

Grid == 75

\* n / 75
X(n) == FromRat(n, Grid)

(***************************************************************************)
(* x ** y for x >= 0 and an exponent y that is the float next to 1/3 or    *)
(* next to 2/3 (par.alpha = 1/3, par.beta = 2/3, 1-par.alpha, 1-par.beta). *)
(* The C library's pow is accurate to about one unit in the last place but *)
(* is not specified bit for bit; it is modelled as the real cube root of x *)
(* or of x*x rounded to nearest.  The powers the sweeps take are evaluated *)
(* once, when the run starts, and kept in libm_pow.                        *)
(***************************************************************************)
\* x ** (1/3)
Cbrt(x) == CbrtRound(x.m, x.e)

\* x ** (2/3)
CbrtSq(x) == CbrtRound(BMul(x.m, x.m), 2 * x.e)

\* the values question1 takes powers of: j/75, 1 - j/75 and the endowments
PowArgs(par) ==
    {X(n) : n \in 0..Grid} \cup {FSub(One, X(n)) : n \in 0..Grid}
        \cup {par.w1A, par.w2A, FSub(One, par.w1A), FSub(One, par.w2A)}

PowTable(args) ==
    [pw \in args |-> [third |-> Cbrt(pw), twothirds |-> CbrtSq(pw)]] @@ <<>>

VARIABLE libm_pow   \* the powers evaluated so far, by base

PowIn(table, base, third) ==
    IF base \in DOMAIN table
    THEN (IF third THEN table[base].third ELSE table[base].twothirds)
    ELSE (IF third THEN Cbrt(base) ELSE CbrtSq(base))

Pow(base, expo) == PowIn(libm_pow, base, FLt(expo, Half))

\* x1A**par.alpha*x2A**(1-par.alpha)
utility_A(par, x1A, x2A) ==
    FMul(Pow(x1A, par.alpha), Pow(x2A, FSub(One, par.alpha)))

\* x1B**par.beta*x2B**(1-par.beta)
utility_B(par, x1B, x2B) ==
    FMul(Pow(x1B, par.beta), Pow(x2B, FSub(One, par.beta)))

\* the utilities of the endowments, the right-hand sides of question1's test
endowment_A(par) == utility_A(par, par.w1A, par.w2A)

endowment_B(par) == utility_B(par, FSub(One, par.w1A), FSub(One, par.w2A))

\* a slip: each utility is compared with the other agent's
RetainedSwapped(par, x1A, x2A, uA, uB) ==
    /\ FGe(utility_A(par, x1A, x2A), uB)
    /\ FGe(utility_B(par, FSub(One, x1A), FSub(One, x2A)), uA)

\* the test of question1 on the pair (x1A, x2A), x1B = 1 - x1A, x2B = 1 - x2A,
\* uA and uB the utilities of the endowments
Retained(par, x1A, x2A, uA, uB) ==
    /\ FGe(utility_A(par, x1A, x2A), uA)
    /\ FGe(utility_B(par, FSub(One, x1A), FSub(One, x2A)), uB)

\* price = 0.5 + 2 * (var / 75)
Price(var) == FAdd(Half, FMul(FromInt(2), X(var)))

(***************************************************************************)
(* The solvers.  Both run the same loop; market_clearing_price prints.     *)
(***************************************************************************)
\* eps = 1e-8
Eps == FromRat(1, 10^8)

\* maxitter=500
DefaultMaxIter == 500

\* np.abs(eps1) < eps
Converged(eps1) == FLt(FAbs(eps1), Eps)

\* t >= maxitter
Exhausted(t, maxitter) == t >= maxitter

\* a slip: the step is subtracted
UpdateDown(par, p1, eps1) == FSub(p1, FDiv(FMul(Half, eps1), par.alpha))

\* a slip: the factor 0.5 is left out
UpdateFullStep(par, p1, eps1) == FAdd(p1, FDiv(eps1, par.alpha))

\* p1 + 0.5*eps1/par.alpha, in market_clearing_price (par.alpha # 0)
Update(par, p1, eps1) == FAdd(p1, FDiv(FMul(Half, eps1), par.alpha))

\* p1 + 0.5*eps1/par.alpha, in market_clearing_price_Q8 (par.alpha # 0)
UpdateQ8(par, p1, eps1) == FAdd(p1, FDiv(FMul(Half, eps1), par.alpha))

\* a line of the form "t: p1 = ... -> excess demand -> ..."
Line(t, p1, eps1) == [kind |-> "line", t |-> t, p1 |-> p1, eps1 |-> eps1]

\* what market_clearing_price prints after an update
Progress(t, p1, eps1) ==
    IF t < 5 \/ t % 25 = 0 THEN <<Line(t, p1, eps1)>>
    ELSE IF t = 5 THEN <<[kind |-> "dots"]>>
    ELSE <<>>

(***************************************************************************)
(* The module imports SimpleNamespace and nothing else: no statement binds *)
(* the name np that both solvers use.  np is looked up in the module's     *)
(* globals when the test of the loop runs: the lookup raises NameError,    *)
(* unless the caller has put numpy there (inauguralproject.np = numpy).    *)
(***************************************************************************)
Bindings == {"unbound", "numpy"}

(***************************************************************************)
(* The inputs of a run: the parameters the caller set on the instance, the *)
(* initial price and the iteration budget passed to both solvers, and how  *)
(* many times the caller runs the sweeps.                                  *)
(***************************************************************************)
MaxPriceStep == 5

MaxSmallIter == 2

MaxRuns == 2

\* the initial prices: 0.5, 1.0, ... and the equilibrium price 17/18
InitialPrices == {FromRat(k, 2) : k \in 1..MaxPriceStep} \cup {FromRat(17, 18)}

Budgets == (0..MaxSmallIter) \cup {DefaultMaxIter}

Alphas == {FromRat(1, 3), FromRat(1, 2), FromInt(0)}

Variants == {"mcp", "q8"}

Sweeps == {"q1", "q2"}

VARIABLES
    par,       \* self.par
    arg,       \* the arguments of the solver calls: [p1, maxitter]
    pc,        \* the method that is running: "idle", "mcp", "q8", "q1", "q2"
    p1, t,     \* the locals of the running solver
    status,    \* per solver: "new", "running", "returned", "raised"
    ret,       \* per solver: the value returned
    err,       \* per solver: the exception raised
    hist,      \* per solver: the (p1, t) pairs the loop head has seen
    out,       \* what has been printed
    list_x1A, list_x2A,          \* self.list_x1A, self.list_x2A
    price_list, error1, error2,  \* self.price_list, self.error1, self.error2
    row,       \* the loop variable of the running sweep (j in question1, var in question2)
    runs,      \* per sweep: the calls made so far
    before,    \* per sweep: its lists as the last call found them
    np         \* the module's global np: "unbound" or "numpy"

solver == <<p1, t, status, ret, err, hist, out>>

lists == <<list_x1A, list_x2A, price_list, error1, error2>>

vars == <<par, arg, pc, solver, lists, row, runs, before, libm_pow, np>>

\* before any call: no solver has run, and the sweeps' lists are not there
Fresh ==
    /\ pc = "idle"
    /\ p1 = FZero
    /\ t = 0
    /\ status = [v \in Variants |-> "new"]
    /\ ret = [v \in Variants |-> FZero]
    /\ err = [v \in Variants |-> "none"]
    /\ hist = [v \in Variants |-> <<>>]
    /\ out = <<>>
    /\ list_x1A = <<>> /\ list_x2A = <<>>
    /\ price_list = <<>> /\ error1 = <<>> /\ error2 = <<>>
    /\ row = 0
    /\ runs = [q \in Sweeps |-> 0]
    /\ before = [q \in Sweeps |-> <<>>]

Init ==
    /\ libm_pow = PowTable(PowArgs(DefaultPar))
    /\ np \in Bindings
    /\ par \in {[DefaultPar EXCEPT !.alpha = a] : a \in Alphas}
    /\ arg \in [p1 : InitialPrices, maxitter : Budgets]
    /\ Fresh

\* the call of a solver: t = 0, p1 the argument
Call(v) ==
    /\ pc = "idle"
    /\ status[v] = "new"
    /\ pc' = v
    /\ p1' = arg.p1
    /\ t' = 0
    /\ status' = [status EXCEPT ![v] = "running"]
    /\ hist' = [hist EXCEPT ![v] = <<<<arg.p1, 0>>>>]
    /\ UNCHANGED <<par, arg, ret, err, out, lists, row, runs, before, libm_pow, np>>

Raise(v, e) ==
    /\ pc' = "idle"
    /\ status' = [status EXCEPT ![v] = "raised"]
    /\ err' = [err EXCEPT ![v] = e]
    /\ UNCHANGED <<p1, t, ret, hist>>

Return(v) ==
    /\ pc' = "idle"
    /\ status' = [status EXCEPT ![v] = "returned"]
    /\ ret' = [ret EXCEPT ![v] = p1]
    /\ UNCHANGED <<p1, t, err, hist>>

\* one pass through the loop of market_clearing_price: demand_A divides by
\* p1, then the test looks np up, then the update divides by par.alpha
MCPStep ==
    /\ pc = "mcp"
    /\ UNCHANGED <<par, arg, lists, row, runs, before, libm_pow, np>>
    /\ IF IsZero(p1)
       THEN Raise("mcp", "ZeroDivisionError") /\ UNCHANGED out
       ELSE LET eps1 == check_market_clearing(par, p1).eps1
            IN  IF np = "unbound"
                THEN Raise("mcp", "NameError") /\ UNCHANGED out
                ELSE IF Converged(eps1) \/ Exhausted(t, arg.maxitter)
                THEN /\ out' = Append(out, Line(t, p1, eps1))
                     /\ Return("mcp")
                ELSE IF IsZero(par.alpha)
                THEN Raise("mcp", "ZeroDivisionError") /\ UNCHANGED out
                ELSE /\ p1' = Update(par, p1, eps1)
                     /\ out' = out \o Progress(t, p1', eps1)
                     /\ t' = t + 1
                     /\ hist' = [hist EXCEPT !["mcp"] = Append(@, <<p1', t + 1>>)]
                     /\ UNCHANGED <<pc, status, ret, err>>

\* one pass through the loop of market_clearing_price_Q8
Q8Step ==
    /\ pc = "q8"
    /\ UNCHANGED <<par, arg, out, lists, row, runs, before, libm_pow, np>>
    /\ IF IsZero(p1)
       THEN Raise("q8", "ZeroDivisionError")
       ELSE LET eps1 == check_market_clearing(par, p1).eps1
            IN  IF np = "unbound"
                THEN Raise("q8", "NameError")
                ELSE IF Converged(eps1) \/ Exhausted(t, arg.maxitter)
                THEN Return("q8")
                ELSE IF IsZero(par.alpha)
                THEN Raise("q8", "ZeroDivisionError")
                ELSE /\ p1' = UpdateQ8(par, p1, eps1)
                     /\ t' = t + 1
                     /\ hist' = [hist EXCEPT !["q8"] = Append(@, <<p1', t + 1>>)]
                     /\ UNCHANGED <<pc, status, ret, err>>

CallMCP == Call("mcp")

CallQ8 == Call("q8")

Next == CallMCP \/ MCPStep \/ CallQ8 \/ Q8Step

Spec == Init /\ [][Next]_vars

(***************************************************************************)
(* The claims.                                                             *)
(***************************************************************************)
Finished(v) == status[v] \in {"returned", "raised"}

\* the price and the counter the loop head of solver v saw last
LastPrice(v) == hist[v][Len(hist[v])][1]

LastCount(v) == hist[v][Len(hist[v])][2]

\* |eps1| < 1e-8 at the price p
ClearsAt(p) == ~IsZero(p) /\ Converged(check_market_clearing(par, p).eps1)

IsPrefix(s1, s2) == Len(s1) <= Len(s2) /\ s1 = SubSeq(s2, 1, Len(s1))

\* C1: for every initial price > 0, every max_iter >= 0 and alpha # 0,
\* market_clearing_price ends by returning, after at most max_iter updates;
\* at the return |eps1(returned price)| < 1e-8 or the counter equals
\* max_iter, and the value returned is the current price.
C1_ReturnsAtAnExit ==
    (~IsZero(par.alpha) /\ Finished("mcp")) =>
        /\ status["mcp"] = "returned"
        /\ Len(hist["mcp"]) - 1 <= arg.maxitter
        /\ (ClearsAt(ret["mcp"]) \/ LastCount("mcp") = arg.maxitter)
        /\ ret["mcp"] = LastPrice("mcp")

\* C2: from p1 = 1.5 with the default parameters and max_iter = 500,
\* market_clearing_price returns through the convergence test after fewer
\* than 500 iterations, and |eps1| < 1e-8 at the price returned.
C2_ConvergesFromDefault ==
    (/\ par = DefaultPar
     /\ arg = [p1 |-> FromRat(3, 2), maxitter |-> DefaultMaxIter]
     /\ Finished("mcp")) =>
        /\ status["mcp"] = "returned"
        /\ LastCount("mcp") < DefaultMaxIter
        /\ ClearsAt(ret["mcp"])

\* C3: with max_iter = 0, market_clearing_price returns the initial price,
\* and no update has been applied before the return.
C3_ZeroBudgetReturnsInitial ==
    (arg.maxitter = 0 /\ Finished("mcp")) =>
        /\ status["mcp"] = "returned"
        /\ ret["mcp"] = arg.p1
        /\ hist["mcp"] = <<<<arg.p1, 0>>>>

\* what a run that converges prints: progress lines and the dots
ProgressKinds == {"line", "dots"}

\* C4: when market_clearing_price returns because the counter reached
\* max_iter while |eps1| >= 1e-8, it has printed something that a run
\* ending through the convergence test does not print (a warning), and it
\* returns the current price.
C4_WarnsWhenExhausted ==
    (status["mcp"] = "returned" /\ ~ClearsAt(ret["mcp"])) =>
        /\ \E k \in 1..Len(out) : out[k].kind \notin ProgressKinds
        /\ ret["mcp"] = LastPrice("mcp")

\* C5: market_clearing_price_Q8 called with alpha = 0 ends by raising an
\* error that names the invalid parameter; it returns no price.
C5_RejectsZeroAlpha ==
    (IsZero(par.alpha) /\ Finished("q8")) =>
        /\ status["q8"] = "raised"
        /\ err["q8"] = "InvalidParameter"

\* C6: for alpha # 0 the two solvers, given the same initial price and
\* max_iter, see the same sequence of (price, counter) pairs at the loop
\* head, and end the same way with the same price.
C6_VariantsAgree ==
    ~IsZero(par.alpha) =>
        /\ (IsPrefix(hist["mcp"], hist["q8"]) \/ IsPrefix(hist["q8"], hist["mcp"]))
        /\ (Finished("mcp") /\ Finished("q8")) =>
              /\ hist["mcp"] = hist["q8"]
              /\ status["mcp"] = status["q8"]
              /\ ret["mcp"] = ret["q8"]
              /\ err["mcp"] = err["q8"]

\* both solvers have returned after at least one update, and only
\* market_clearing_price has printed
C6_BothReturned ==
    /\ ~IsZero(par.alpha)
    /\ status["mcp"] = "returned" /\ status["q8"] = "returned"
    /\ Len(hist["q8"]) > 1
    /\ out # <<>>

\* C10: with the default parameters every price the loop of
\* market_clearing_price holds is strictly positive, and the demand
\* functions are never evaluated at p1 = 0.
C10_PricePositive ==
    par = DefaultPar =>
        /\ \A k \in 1..Len(hist["mcp"]) : FLt(FZero, hist["mcp"][k][1])
        /\ err["mcp"] # "ZeroDivisionError"

\* the loop has updated the price at least twice under the default parameters
C10_Updated == par = DefaultPar /\ Len(hist["mcp"]) >= 3

(***************************************************************************)
(* The sweeps.  question1 and question2 assign new empty lists and fill    *)
(* them; one step is one pass through the outer loop.                      *)
(***************************************************************************)
\* a slip: the list is not replaced
KeepList(old) == old

\* self.<list> = []: the attribute that held old holds a new empty list
NewList(old) == <<>>

\* self.list_x1A = [], self.list_x2A = []
Q1Begin ==
    /\ pc = "idle"
    /\ runs["q1"] + runs["q2"] < MaxRuns
    /\ pc' = "q1"
    /\ row' = 0
    /\ list_x1A' = NewList(list_x1A)
    /\ list_x2A' = NewList(list_x2A)
    /\ runs' = [runs EXCEPT !["q1"] = @ + 1]
    /\ before' = [before EXCEPT !["q1"] = <<list_x1A, list_x2A>>]
    /\ UNCHANGED <<par, arg, solver, price_list, error1, error2, libm_pow, np>>

\* the x2A = i/75, i in range(76) in order, that pass the test at x1A
KeptAbove(x1A, uA, uB) ==
    SelectSeq([i \in 1..GridCount |-> X(i - 1)],
              LAMBDA x2A : Retained(par, x1A, x2A, uA, uB))

Kept(x1A) == KeptAbove(x1A, endowment_A(par), endowment_B(par))

\* what the inner loop at x1A appends to list_x1A, kept what it appends to
\* list_x2A
RowX1(x1A, kept) == [k \in 1..Len(kept) |-> x1A]

\* one pass through the outer loop of question1
Q1Row ==
    /\ pc = "q1"
    /\ LET kept == Kept(X(row))
       IN  /\ list_x1A' = list_x1A \o RowX1(X(row), kept)
           /\ list_x2A' = list_x2A \o kept
    /\ IF row + 1 < GridCount
       THEN row' = row + 1 /\ pc' = pc
       ELSE row' = row /\ pc' = "idle"
    /\ UNCHANGED <<par, arg, solver, price_list, error1, error2, runs, before, libm_pow, np>>

\* self.price_list = [], self.error1 = [], self.error2 = []
Q2Begin ==
    /\ pc = "idle"
    /\ runs["q1"] + runs["q2"] < MaxRuns
    /\ pc' = "q2"
    /\ row' = 0
    /\ price_list' = NewList(price_list)
    /\ error1' = NewList(error1)
    /\ error2' = NewList(error2)
    /\ runs' = [runs EXCEPT !["q2"] = @ + 1]
    /\ before' = [before EXCEPT !["q2"] = <<price_list, error1, error2>>]
    /\ UNCHANGED <<par, arg, solver, list_x1A, list_x2A, libm_pow, np>>

\* one pass through the loop of question2
Q2Step ==
    /\ pc = "q2"
    /\ price_list' = Append(price_list, Price(row))
    /\ LET eps == check_market_clearing(par, Price(row))
       IN  error1' = Append(error1, eps.eps1) /\ error2' = Append(error2, eps.eps2)
    /\ IF row + 1 < GridCount
       THEN row' = row + 1 /\ pc' = pc
       ELSE row' = row /\ pc' = "idle"
    /\ UNCHANGED <<par, arg, solver, list_x1A, list_x2A, runs, before, libm_pow, np>>

SweepInit ==
    /\ libm_pow = PowTable(PowArgs(DefaultPar))
    /\ np = "unbound"
    /\ par = DefaultPar
    /\ arg = [p1 |-> FromRat(3, 2), maxitter |-> DefaultMaxIter]
    /\ Fresh

SweepNext == Q1Begin \/ Q1Row \/ Q2Begin \/ Q2Step

SweepSpec == SweepInit /\ [][SweepNext]_vars

\* the lists of sweep q
ListsOf(q) ==
    IF q = "q1" THEN <<list_x1A, list_x2A>> ELSE <<price_list, error1, error2>>

\* each list of l1 is an initial part of the list of l2 at the same place
EachPrefix(l1, l2) ==
    Len(l1) = Len(l2) /\ \A k \in 1..Len(l1) : IsPrefix(l1[k], l2[k])

\* C7: a sweep that has been run before yields the lists of its run before:
\* the re-run starts from empty lists (what it has appended so far is an
\* initial part of the earlier lists), and when it is over, and through the
\* runs of the other sweep, its lists equal the earlier ones.
C7_RerunYieldsSameLists ==
    \A q \in Sweeps :
        runs[q] >= 2 =>
            IF pc = q THEN EachPrefix(ListsOf(q), before[q])
            ELSE ListsOf(q) = before[q]

\* a sweep has been run twice, and its lists are not empty
C7_RanTwice ==
    /\ pc = "idle"
    /\ \E q \in Sweeps : runs[q] = 2 /\ ListsOf(q)[1] # <<>>

\* the grid j/75, j = 0..75
C8_Points == [k \in 1..GridCount |-> X(k - 1)] \o <<>>

\* the 76 * 76 pairs of the grid in nested order: x1A outer, x2A inner
C8_Pairs(pts) ==
    [k \in 1..(GridCount * GridCount) |->
        <<pts[((k - 1) \div GridCount) + 1], pts[((k - 1) % GridCount) + 1]>>]

\* both agents are at least as well off at (x1A, x2A) as at the endowment,
\* whose utilities are uA and uB
C8_Improves(x1A, x2A, uA, uB) ==
    /\ FGe(utility_A(par, x1A, x2A), uA)
    /\ FGe(utility_B(par, FSub(One, x1A), FSub(One, x2A)), uB)

C8_Improving(pairs, uA, uB) ==
    SelectSeq(pairs, LAMBDA c : C8_Improves(c[1], c[2], uA, uB))

C8_ListsAre(imp) ==
    /\ list_x1A = [k \in 1..Len(imp) |-> imp[k][1]]
    /\ list_x2A = [k \in 1..Len(imp) |-> imp[k][2]]

C8_LastImproves(n, uA, uB) ==
    n > 0 => C8_Improves(list_x1A[n], list_x2A[n], uA, uB)

C8_Lists(uA, uB) ==
    /\ Len(list_x1A) = Len(list_x2A)
    /\ C8_LastImproves(Len(list_x1A), uA, uB)
    /\ (pc = "idle" /\ runs["q1"] >= 1) =>
           C8_ListsAre(C8_Improving(C8_Pairs(C8_Points), uA, uB))

\* C8: after question1, list_x1A and list_x2A have the same length and hold
\* the grid pairs (j/75, i/75) with utility_A(x1A, x2A) >= utility_A(w1A, w2A)
\* and utility_B(1-x1A, 1-x2A) >= utility_B(1-w1A, 1-w2A), each once, in
\* nested order; while it runs, the lists have the same length and the pair
\* appended last is such a pair.
C8_ListsImprovingPairs ==
    C8_Lists(utility_A(par, par.w1A, par.w2A),
             utility_B(par, FSub(One, par.w1A), FSub(One, par.w2A)))

\* question1 is over: it kept some pairs of the grid and dropped others
C8_SomeKept ==
    /\ pc = "idle" /\ runs["q1"] >= 1
    /\ Len(list_x1A) > 0
    /\ Len(list_x1A) < GridCount * GridCount

\* p1*eps1 + eps2 at the k-th price of question2, in binary64
C9_Residual(k) == FAdd(FMul(price_list[k], error1[k]), error2[k])

\* C9 as stated: p1*eps1 + eps2 = 0 at every price question2 samples.
C9_WalrasExact ==
    \A k \in 1..Len(price_list) : IsZero(C9_Residual(k))

\* 2^-51, two units in the last place of 1.0
C9_Tolerance == [s |-> 0, e |-> -103, m |-> <<0, 0, 0, 128>>]

\* C9 as amended: with the default parameters, at each of the 76 prices
\* question2 samples, |p1*eps1 + eps2| <= 2^-51.
C9_WalrasRounded ==
    \A k \in 1..Len(price_list) : ~FLt(C9_Tolerance, FAbs(C9_Residual(k)))

\* question2 is over, and at some of its prices the sum is not zero
C9_Sampled ==
    /\ pc = "idle"
    /\ Len(price_list) = GridCount
    /\ \E k \in 1..Len(price_list) : ~IsZero(C9_Residual(k))


====
